---------------------------- MODULE Spec2Model ----------------------------
(***************************************************************************)
(* A model of src/src/data_wrangling.py: the four table operations         *)
(* pre_processing, translate, normalize and get_country_codes, each with   *)
(* the pandas operations it calls modelled by what they compute.           *)
(*                                                                         *)
(* A cell of a table is a record: NA is pandas' missing value (NaN/None),  *)
(* Str(s) a Python string, Int(n) an integer.  A missing value is never    *)
(* equal to the string "NaN" or "null".                                    *)
(*                                                                         *)
(* Each operation has its own specification (SpecPre, SpecTranslate,       *)
(* SpecNormalize, SpecGeo) whose initial states are the inputs of one      *)
(* call.  normalize and get_country_codes advance one turn of their loop   *)
(* per step, since the table is changed in place between the turns.        *)
(*                                                                         *)
(* The inputs: tables have at least one row; the ID and the attribute      *)
(* name of a long table's row are never missing; the columns of the        *)
(* tables given to translate and normalize hold strings and missing        *)
(* values (dtype object), as pre_processing leaves them.                   *)
(***************************************************************************)
EXTENDS Naturals, Sequences, FiniteSets, TLC

VARIABLES
    \* pre_processing
    long,       \* the long table passed to pre_processing (argument df)
    prePc,      \* "call" before the call, "done" after it
    preRet,     \* what the call gave: a table, None, or a raised exception
    \* translate
    tdf,        \* the table passed to translate (mutated in place)
    tfile,      \* the content of the translation file, or "bad" when unreadable
    tfill,      \* the fill argument
    tin,        \* the column as it was before the first call
    thist,      \* the column after each successful call, oldest first
    tret,       \* what the last call returned: "df" or "None" ("" before any call)
    \* normalize
    ndf,        \* the table passed to normalize (mutated in place)
    ndf0,       \* a copy of it taken before the call
    ncol,       \* the specification: a sequence of entries, in dict order
    nk,         \* the position in the loop over the specification
    npc,        \* "loop", "returned" (the table) or "failed" (None)
    nturn,      \* the table as it was when the last turn of the loop began
    \* get_country_codes
    gdf,        \* the location column of the table
    gq,         \* the distinct locations still to look up, in order
    gcalls,     \* how often the geocoder was queried for each location
    ganswer,    \* the country code the geocoder returned for each location
    city_dict,  \* the cache built by the loop
    gcolumn,    \* the new column, <<>> while it is absent
    gpc         \* "loop", "returned" or "failed"

preVars == <<long, prePc, preRet>>
trVars == <<tdf, tfile, tfill, tin, thist, tret>>
normVars == <<ndf, ndf0, ncol, nk, npc, nturn>>
geoVars == <<gdf, gq, gcalls, ganswer, city_dict, gcolumn, gpc>>
vars == <<preVars, trVars, normVars, geoVars>>

\* ------------------------------------------------------------------ cells

NA == [k |-> "na"]
Str(s) == [k |-> "str", s |-> s]
Int(n) == [k |-> "int", n |-> n]
IsNA(c) == c.k = "na"

Range(s) == {s[i] : i \in DOMAIN s}

\* The members of set S in the order of the sequence `order` (sorted labels).
Sorted(S, order) == SelectSeq(order, LAMBDA x : x \in S)

\* ------------------------------------------------------------------ bounds

\* The longest long table pre_processing is given.
MaxRows == 2
\* The longest column translate is given, and how often it is called on it.
MaxLen == 2
MaxCalls == 2
\* The longest location column get_country_codes is given.
MaxCities == 3
\* The most rows of a table normalize is given.
MaxNRows == 2

\* ========================================================================
\* pre_processing
\* ========================================================================

\* The column names pre_processing is called with (its defaults).
id == "ID"
key == "Attribute Names"
value == "Attribute Values"

\* The columns of the long table other than id, key and value.
PassCols == <<"City", "TypeName">>

\* The values the columns of the long table take.  An attribute may be named
\* like a passthrough column ("City") or like the id column ("ID").
IDs == <<"1", "2">>
AttrNames == <<"City", "Color", "ID">>
AttrValues == {Str("v"), NA}
PassValues ==
    [City |-> {Str("a"), Str("b"), NA}, TypeName |-> {Str("x"), NA}]

LongRow ==
    [id : Range(IDs), key : Range(AttrNames), value : AttrValues,
     pass : {f \in [Range(PassCols) -> UNION {PassValues[p] : p \in Range(PassCols)}] :
                \A p \in Range(PassCols) : f[p] \in PassValues[p]}]
\* The long tables of one to MaxRows rows.
LongTables == UNION {[1..n -> LongRow] : n \in 1..MaxRows}

\* Whether two rows of df carry the same (id, key) pair.
HasDuplicates(df) ==
    \E i, j \in DOMAIN df : i < j /\ df[i].id = df[j].id /\ df[i].key = df[j].key

\* The pivot of df: one row per id (sorted), one column per key (sorted),
\* the value of the pair or NaN where the pair is absent.
Pivot(df) ==
    LET ids == Sorted({df[i].id : i \in DOMAIN df}, IDs)
        keys == Sorted({df[i].key : i \in DOMAIN df}, AttrNames)
        cell(i, k) ==
            LET rows == {r \in DOMAIN df : df[r].id = i /\ df[r].key = k}
            IN IF rows = {} THEN NA
               ELSE df[CHOOSE r \in rows : \A q \in rows : q <= r].value
    IN [ok |-> TRUE, index |-> ids, columns |-> keys,
        data |-> [c \in 1..Len(keys) |->
                     [r \in 1..Len(ids) |-> cell(ids[r], keys[c])]]]

\* A faulty unstack that does not look for duplicate pairs.
UnstackUnchecked(df) == Pivot(df)

\* df.set_index([id, key])[value].unstack(): the pivot; unstack raises
\* ValueError ("Index contains duplicate entries, cannot reshape") when an
\* (id, key) pair occurs twice.
Unstack(df) == IF HasDuplicates(df) THEN [ok |-> FALSE] ELSE Pivot(df)

\* A faulty first(): the value of the group's first row, missing or not.
FirstRow(df, i, p) ==
    LET rows == {r \in DOMAIN df : df[r].id = i}
    IN df[CHOOSE r \in rows : \A q \in rows : r <= q].pass[p]

\* GroupBy.first() of one column within one group: the first value that is
\* not missing, NaN when every value of the group is missing.
FirstNonNull(df, i, p) ==
    LET rows == {r \in DOMAIN df : df[r].id = i /\ ~IsNA(df[r].pass[p])}
    IN IF rows = {} THEN NA
       ELSE df[CHOOSE r \in rows : \A q \in rows : r <= q].pass[p]

\* df.loc[:, ~df.columns.isin([key, value])].groupby(id).first(): one row per
\* id (sorted), one column per passthrough column.
GroupFirst(df) ==
    LET ids == Sorted({df[i].id : i \in DOMAIN df}, IDs)
    IN [index |-> ids, columns |-> PassCols,
        data |-> [c \in 1..Len(PassCols) |->
                     [r \in 1..Len(ids) |-> FirstNonNull(df, ids[r], PassCols[c])]]]

\* df1.merge(df2, on=id): an inner join on the index level id.  A column name
\* found on both sides gets the suffix _x on the left and _y on the right.
\* When df1 has a column named like the index level, merge raises ValueError
\* ("'ID' is both an index level and a column label, which is ambiguous").
\* Every column of the result remembers the side and the name it came from.
Merge(df1, df2) ==
    IF id \in Range(df1.columns) THEN [ok |-> FALSE]
    ELSE LET both == Range(df1.columns) \cap Range(df2.columns)
             lcol(c) == [name |-> IF df1.columns[c] \in both
                                  THEN df1.columns[c] \o "_x" ELSE df1.columns[c],
                         side |-> "left", src |-> df1.columns[c]]
             rcol(c) == [name |-> IF df2.columns[c] \in both
                                  THEN df2.columns[c] \o "_y" ELSE df2.columns[c],
                         side |-> "right", src |-> df2.columns[c]]
             rows == SelectSeq(df1.index, LAMBDA i : i \in Range(df2.index))
             lrow(i) == CHOOSE r \in DOMAIN df1.index : df1.index[r] = i
             rrow(i) == CHOOSE r \in DOMAIN df2.index : df2.index[r] = i
         IN [ok |-> TRUE, index |-> rows,
             columns |-> [c \in 1..Len(df1.columns) |-> lcol(c)]
                         \o [c \in 1..Len(df2.columns) |-> rcol(c)],
             data |-> [c \in 1..Len(df1.columns) |->
                          [r \in 1..Len(rows) |-> df1.data[c][lrow(rows[r])]]]
                      \o [c \in 1..Len(df2.columns) |->
                          [r \in 1..Len(rows) |-> df2.data[c][rrow(rows[r])]]]]

\* pre_processing(df): the try block pivots and carries forward; an exception
\* there is logged and None is returned.  The merge runs in the else branch,
\* outside the try: an exception there reaches the caller.
pre_processing(df) ==
    LET df1 == Unstack(df)
        df2 == GroupFirst(df)
    IN IF ~df1.ok THEN [status |-> "None"]
       ELSE LET m == Merge(df1, df2)
            IN IF ~m.ok THEN [status |-> "raised"]
               ELSE [status |-> "table", index |-> m.index,
                     columns |-> m.columns, data |-> m.data]

NoRet == [status |-> "pending"]

InitPre ==
    /\ long \in LongTables
    /\ prePc = "call"
    /\ preRet = NoRet

\* The call pre_processing(long).
PreProcessing ==
    /\ prePc = "call"
    /\ preRet' = pre_processing(long)
    /\ prePc' = "done"
    /\ UNCHANGED <<long, trVars, normVars, geoVars>>

\* ------------------------------------------------ claims on pre_processing

\* The distinct ID values of the long table.
InputIDs == {long[r].id : r \in DOMAIN long}
\* Each (ID, attribute name) pair occurs at most once in the long table.
UniquePairs ==
    \A i, j \in DOMAIN long :
        (long[i].id = long[j].id /\ long[i].key = long[j].key) => i = j
\* The names of the columns of the returned table.
OutNames == {preRet.columns[c].name : c \in DOMAIN preRet.columns}

\* C1: for a long table with unique (ID, attribute name) pairs,
\* pre_processing returns a table with exactly one row per distinct ID of the
\* input: no ID is lost and none appears twice.
C1_OneRowPerID ==
    (prePc = "done" /\ UniquePairs) =>
        /\ preRet.status = "table"
        /\ Range(preRet.index) = InputIDs
        /\ Len(preRet.index) = Cardinality(InputIDs)

\* The rows are right whenever a table is returned: what C1 says, short of
\* the inputs on which the merge raises.
RowsOfReturnedTable ==
    (prePc = "done" /\ preRet.status = "table") =>
        /\ Range(preRet.index) = InputIDs
        /\ Len(preRet.index) = Cardinality(InputIDs)

\* C2: every distinct attribute name and every passthrough column of the
\* input is, under its own name, a column of the table pre_processing
\* returns, also when an attribute is named like a passthrough column.
C2_ColumnsKeepTheirNames ==
    (prePc = "done" /\ UniquePairs /\ preRet.status = "table") =>
        /\ \A r \in DOMAIN long : long[r].key \in OutNames
        /\ \A p \in Range(PassCols) : p \in OutNames

\* C3: when two rows of the input carry the same (ID, attribute name) pair,
\* pre_processing returns None and no table.
C3_DuplicatePairsGiveNone ==
    (prePc = "done" /\ ~UniquePairs) => preRet.status = "None"

C3_Witness == prePc = "done" /\ ~UniquePairs /\ preRet.status = "None"

\* The rows of the long table that carry the ID i, in input order.
RowsOf(i) == {r \in DOMAIN long : long[r].id = i}
FirstRowOf(i) == CHOOSE r \in RowsOf(i) : \A q \in RowsOf(i) : r <= q
\* The cell of the returned table in row r of the carried-forward column c.
Carried(c) == preRet.columns[c].side = "right"

\* C10 as stated: the carried-forward value of an ID is the value of the
\* first input row with that ID, also when that value is missing.
C10_FirstRowWins ==
    (prePc = "done" /\ preRet.status = "table") =>
        \A c \in DOMAIN preRet.columns : \A r \in DOMAIN preRet.index :
            Carried(c) =>
                preRet.data[c][r] =
                    long[FirstRowOf(preRet.index[r])].pass[preRet.columns[c].src]

\* C10 as amended: the carried-forward value of an ID is the first value
\* that is not missing among the input rows with that ID, in input order,
\* and is missing only when the column is missing in all of them.
C10_FirstPresentValueWins ==
    (prePc = "done" /\ preRet.status = "table") =>
        \A c \in DOMAIN preRet.columns : \A r \in DOMAIN preRet.index :
            Carried(c) =>
                LET p == preRet.columns[c].src
                    rows == RowsOf(preRet.index[r])
                    v == preRet.data[c][r]
                IN \/ /\ IsNA(v)
                      /\ \A q \in rows : IsNA(long[q].pass[p])
                   \/ /\ ~IsNA(v)
                      /\ \E q \in rows :
                            /\ long[q].pass[p] = v
                            /\ \A q2 \in rows : q2 < q => IsNA(long[q2].pass[p])

\* A table was returned for an ID whose first row lacks the passthrough
\* value that a later row of the same ID has.
C10_Witness ==
    /\ prePc = "done" /\ preRet.status = "table"
    /\ \E c \in DOMAIN preRet.columns : \E r \in DOMAIN preRet.index :
          /\ Carried(c)
          /\ IsNA(long[FirstRowOf(preRet.index[r])].pass[preRet.columns[c].src])
          /\ ~IsNA(preRet.data[c][r])

\* ========================================================================
\* translate
\* ========================================================================

\* The strings of the translated column, the keys and the targets of the
\* translation file.
Words == {"rood", "red", "Other"}
\* The fill values translate is called with ("Other" is the default).
Fills == {"Other", "red"}
ColumnValues == {Str(w) : w \in Words} \cup {NA}

\* json.load of the translation file: an object from strings to strings or
\* null (None, which pandas holds as a missing value).
Dicts == UNION {[K -> ColumnValues] : K \in SUBSET Words}
\* A file that is missing or is no JSON: open or json.load raises.
BadFile == [bad |-> TRUE]
GoodFile(d) == [bad |-> FALSE, d |-> d]

\* A faulty map (Series.replace): a value that is no key stays as it is.
MapDictKeep(col, d) ==
    [r \in DOMAIN col |->
        IF col[r].k = "str" /\ col[r].s \in DOMAIN d THEN d[col[r].s] ELSE col[r]]

\* Series.map(d) with a dict: the value of a key, NaN for a value that is
\* not a key (a missing value among them).
MapDict(col, d) ==
    [r \in DOMAIN col |->
        IF col[r].k = "str" /\ col[r].s \in DOMAIN d THEN d[col[r].s] ELSE NA]

\* A faulty fillna that fills nothing.
FillnaNone(col, fill) == col

\* Series.fillna(fill) with a scalar: every missing value becomes fill.
Fillna(col, fill) ==
    [r \in DOMAIN col |-> IF IsNA(col[r]) THEN Str(fill) ELSE col[r]]

\* translate(df, col, trans_filepath, fill): df is [present, v], whether it
\* has the column col and the column's values.  An exception (the file, or
\* KeyError for the column) is logged, None is returned and df is as it was;
\* otherwise the column of df is replaced and df is returned.
translate(df, file, fill) ==
    IF file.bad \/ ~df.present THEN [ret |-> "None", df |-> df]
    ELSE [ret |-> "df",
          df |-> [df EXCEPT !.v = Fillna(MapDict(df.v, file.d), fill)]]

InitTranslate ==
    /\ \E col \in UNION {[1..n -> ColumnValues] : n \in 1..MaxLen},
          present \in BOOLEAN :
          /\ tdf = [present |-> present, v |-> IF present THEN col ELSE <<>>]
          /\ tin = tdf.v
    /\ tfile \in {BadFile} \cup {GoodFile(d) : d \in Dicts}
    /\ tfill \in Fills
    /\ thist = <<>>
    /\ tret = ""

\* One call translate(tdf, col, file, tfill); the result of a successful call
\* is passed to the next one, as the pipeline driver does.
Translate ==
    /\ Len(thist) < MaxCalls
    /\ tret \in {"", "df"}
    /\ LET res == translate(tdf, tfile, tfill)
       IN /\ tdf' = res.df
          /\ tret' = res.ret
          /\ thist' = IF res.ret = "df" THEN Append(thist, res.df.v) ELSE thist
    /\ UNCHANGED <<tfile, tfill, tin, preVars, normVars, geoVars>>

\* ----------------------------------------------------- claims on translate

\* The target values of the translation table (null is no value).
TargetValues == {tfile.d[w] : w \in DOMAIN tfile.d} \ {NA}

\* C4: after a successful translate every value of the column is a target
\* value of the translation table or the fallback, whether the input value
\* was a key, no key, or missing.
C4_TargetOrFallback ==
    tret = "df" =>
        \A r \in DOMAIN tdf.v : tdf.v[r] \in TargetValues \cup {Str(tfill)}

\* One successful call turned a key into its target and a missing value
\* into the fallback.
C4_Witness ==
    /\ tret = "df" /\ Len(thist) = 1
    /\ \E r \in DOMAIN tin :
          /\ tin[r].k = "str" /\ tin[r].s \in DOMAIN tfile.d
          /\ tdf.v[r] = tfile.d[tin[r].s] /\ tdf.v[r] # Str(tfill)
    /\ \E r \in DOMAIN tin : IsNA(tin[r]) /\ tdf.v[r] = Str(tfill)

\* C5 as stated: translating twice with the same table gives the same
\* column as translating once.
C5_Idempotent == Len(thist) >= 2 => thist[2] = thist[1]

\* A value the table leaves as it is: a key mapped to itself, or the
\* fallback when the table maps it to nothing else.
Stays(w) ==
    \/ w.s \in DOMAIN tfile.d /\ tfile.d[w.s] = w
    \/ w = Str(tfill) /\ (w.s \in DOMAIN tfile.d => IsNA(tfile.d[w.s]))

\* C5 as amended: a further translation with the same table gives in a row
\* the value of the translation before it exactly when that value is a key
\* mapped to itself, or is the fallback and no key with another target; any
\* other value changes (a target that is no key becomes the fallback).
C5_SameExactlyWhereValueStays ==
    \A n \in 1..Len(thist) : n + 1 <= Len(thist) =>
        \A r \in DOMAIN thist[n] :
            (thist[n + 1][r] = thist[n][r]) <=> Stays(thist[n][r])

\* Two translations, after which one row holds what it held after the
\* first and another row does not.
C5_Witness ==
    /\ Len(thist) >= 2
    /\ \E r \in DOMAIN thist[1] : thist[2][r] # thist[1][r]
    /\ \E r \in DOMAIN thist[1] : thist[2][r] = thist[1][r]

\* ========================================================================
\* normalize
\* ========================================================================

\* The column names of the tables and specifications normalize is given.
NCols == {"BodyColorText", "color"}
\* The cells of the one column the table has before the call.
NValues == {Str("red"), Str("7"), NA}
\* The type tags of the specification ("O" is object, "h" is int16).
NTypes == {"category", "O", "h"}
\* The fill argument (its default).
nfill == "null"
\* The literal default of an entry without a source column.
Literal == "null"

\* The dtype a type tag names.
Dtype(t) == CASE t = "category" -> "category" [] t = "O" -> "object" [] t = "h" -> "int16"

\* A specification entry new -> values: values[0] is the source column or
\* None (named = FALSE), values[1] the type tag, and len is len(values); the
\* third element is the transform str.upper for a named source and the
\* literal default otherwise.
Entries == [new : NCols, named : {TRUE}, old : NCols, type : NTypes, len : {2, 3}]
           \cup [new : NCols, named : {FALSE}, old : {""}, type : NTypes, len : {2, 3}]

\* A dict of entries: no two entries have the same key.
Specifications ==
    {sp \in UNION {[1..n -> Entries] : n \in 0..Cardinality(NCols)} :
        \A i, j \in DOMAIN sp : i # j => sp[i].new # sp[j].new}

\* The row labels of a table of n rows: p1..pn, or with the last row
\* labelled like a column of the specification.
RowLabels(n) ==
    {[r \in 1..n |-> "p" \o ToString(r)],
     [r \in 1..n |-> IF r = n THEN "color" ELSE "p" \o ToString(r)]}

\* A table: its row labels, its column names in order, and per column name
\* of NCols the cells and the dtype (<<>> and "" for a column it lacks).
NTable(index, cells) ==
    [index |-> index, columns |-> <<"BodyColorText">>,
     data |-> [c \in NCols |-> IF c = "BodyColorText" THEN cells ELSE <<>>],
     dtype |-> [c \in NCols |-> IF c = "BodyColorText" THEN "object" ELSE ""]]
NTables ==
    UNION {{NTable(index, cells) : index \in RowLabels(n), cells \in [1..n -> NValues]}
           : n \in 1..MaxNRows}

Has(df, c) == c \in Range(df.columns)

\* df[c] = series: replaces the column c, or appends it as the last column.
SetItem(df, c, cells, dtype) ==
    [df EXCEPT !.columns = IF Has(df, c) THEN @ ELSE Append(@, c),
               !.data[c] = cells, !.dtype[c] = dtype]

\* df.drop(columns=c, inplace=True)
Drop(df, c) ==
    [df EXCEPT !.columns = SelectSeq(@, LAMBDA x : x # c),
               !.data[c] = <<>>, !.dtype[c] = ""]

\* str.upper()
StrUpper(s) == CASE s = "red" -> "RED" [] s = "null" -> "NULL" [] OTHER -> s

\* Series.apply(str.upper).  On an object column the function is called on
\* every cell and raises AttributeError on a cell that is no string (a
\* missing value is a float); on an int16 column every cell is an int.  On
\* a categorical column it is called on the categories only, missing values
\* stay missing, and the result is categorical when the new categories are
\* distinct and object otherwise.
Apply(cells, dtype) ==
    LET vals == {cells[r] : r \in DOMAIN cells}
        cats == {c \in vals : ~IsNA(c)}
        up(c) == IF c.k = "str" THEN Str(StrUpper(c.s)) ELSE c
    IN IF dtype = "category"
       THEN IF \E c \in cats : c.k # "str" THEN [ok |-> FALSE]
            ELSE [ok |-> TRUE, v |-> [r \in DOMAIN cells |-> up(cells[r])],
                  dtype |-> IF \A a, b \in cats : up(a) = up(b) => a = b
                            THEN "category" ELSE "object"]
       ELSE IF \E c \in vals : c.k # "str" THEN [ok |-> FALSE]
            ELSE [ok |-> TRUE, v |-> [r \in DOMAIN cells |-> up(cells[r])],
                  dtype |-> "object"]

\* int(s) for a string s: the strings that are numerals.
IsNumeral(s) == s \in {"7"}
ParseInt(s) == CASE s = "7" -> 7

\* A faulty astype that casts nothing and never raises.
AstypeKeep(cells, type) == [ok |-> TRUE, v |-> cells]

\* Series.astype(type).  To category and to object every cell keeps its
\* value and a missing value stays missing.  To int16 a string is parsed
\* and the cast raises ValueError on a string that is no numeral and on a
\* missing value.
Astype(cells, type) ==
    IF type = "h"
    THEN IF \E r \in DOMAIN cells :
               \/ IsNA(cells[r])
               \/ cells[r].k = "str" /\ ~IsNumeral(cells[r].s)
         THEN [ok |-> FALSE]
         ELSE [ok |-> TRUE,
               v |-> [r \in DOMAIN cells |->
                        IF cells[r].k = "str" THEN Int(ParseInt(cells[r].s))
                        ELSE cells[r]]]
    ELSE [ok |-> TRUE, v |-> cells]

\* df[new].fillna({new: fill}, inplace=True).  The dict is a mapping from ROW
\* LABELS to fill values: fillna aligns it with the column's index, so only
\* a row labelled new can be filled.  On a categorical column fillna raises
\* when such a row exists and fill is no category; an int16 column holds no
\* missing value.  df[new] is a Series taken from df: the in-place fill
\* reaches df when pandas hands out the cached column (propagate) and not
\* under copy-on-write.
FillColumn(df, new, fill, propagate) ==
    LET cells == df.data[new]
        hit == {r \in DOMAIN cells : df.index[r] = new}
        cats == {cells[r] : r \in DOMAIN cells} \ {NA}
    IN IF df.dtype[new] = "int16" THEN [ok |-> TRUE, df |-> df]
       ELSE IF df.dtype[new] = "category" /\ hit # {} /\ Str(fill) \notin cats
       THEN [ok |-> FALSE, df |-> df]
       ELSE [ok |-> TRUE,
             df |-> IF propagate
                    THEN [df EXCEPT !.data[new] =
                             [r \in DOMAIN cells |->
                                 IF r \in hit /\ IsNA(cells[r]) THEN Str(fill)
                                 ELSE cells[r]]]
                    ELSE df]

\* Lines 86-95 for an entry with a source column: the optional transform is
\* assigned to the source column, the cast to the target column, and the
\* source column is dropped when the names differ.  [ok, df]: whether no
\* exception was raised, and the table as the lines leave it.
FromSource(df, e) ==
    IF ~Has(df, e.old) THEN [ok |-> FALSE, df |-> df]
    ELSE LET a == IF e.len = 3 THEN Apply(df.data[e.old], df.dtype[e.old])
                  ELSE [ok |-> TRUE, v |-> df.data[e.old], dtype |-> df.dtype[e.old]]
         IN IF ~a.ok THEN [ok |-> FALSE, df |-> df]
            ELSE LET df1 == SetItem(df, e.old, a.v, a.dtype)
                     c == Astype(df1.data[e.old], e.type)
                 IN IF ~c.ok THEN [ok |-> FALSE, df |-> df1]
                    ELSE LET df2 == SetItem(df1, e.new, c.v, Dtype(e.type))
                         IN [ok |-> TRUE,
                             df |-> IF e.new # e.old THEN Drop(df2, e.old) ELSE df2]

\* Lines 97-99 for an entry without a source column: with a third element
\* the literal is assigned to every row of the target column and the column
\* is cast; with two elements nothing is assigned.
FromLiteral(df, e) ==
    IF e.len = 3
    THEN LET df1 == SetItem(df, e.new, [r \in DOMAIN df.index |-> Str(Literal)], "object")
             c == Astype(df1.data[e.new], e.type)
         IN IF ~c.ok THEN [ok |-> FALSE, df |-> df1]
            ELSE [ok |-> TRUE, df |-> SetItem(df1, e.new, c.v, Dtype(e.type))]
    ELSE [ok |-> TRUE, df |-> df]

\* One turn of the loop of normalize (lines 85-100) on the table df, which
\* is changed in place: df[new] raises KeyError at line 100 when nothing
\* created the target column.
NormalizeOne(df, e, fill, propagate) ==
    LET s == IF e.named THEN FromSource(df, e) ELSE FromLiteral(df, e)
    IN IF ~s.ok THEN s
       ELSE IF ~Has(s.df, e.new) THEN [ok |-> FALSE, df |-> s.df]
       ELSE FillColumn(s.df, e.new, fill, propagate)

InitNormalize ==
    /\ ndf \in NTables
    /\ ndf0 = ndf
    /\ ncol \in Specifications
    /\ nk = 1
    /\ npc = "loop"
    /\ nturn = ndf

\* A turn of the loop that raises nothing.
NormalizeEntry ==
    /\ npc = "loop"
    /\ nk <= Len(ncol)
    /\ \E propagate \in BOOLEAN :
          LET res == NormalizeOne(ndf, ncol[nk], nfill, propagate)
          IN /\ res.ok
             /\ ndf' = res.df
    /\ nturn' = ndf
    /\ nk' = nk + 1
    /\ UNCHANGED <<ndf0, ncol, npc, preVars, trVars, geoVars>>

\* A turn of the loop that raises: the except branch logs and normalize
\* returns None.  The table keeps what the turns so far did to it.
NormalizeFails ==
    /\ npc = "loop"
    /\ nk <= Len(ncol)
    /\ \E propagate \in BOOLEAN :
          LET res == NormalizeOne(ndf, ncol[nk], nfill, propagate)
          IN /\ ~res.ok
             /\ ndf' = res.df
    /\ nturn' = ndf
    /\ npc' = "failed"
    /\ UNCHANGED <<ndf0, ncol, nk, preVars, trVars, geoVars>>

\* The loop is over: the else branch returns df.
NormalizeReturn ==
    /\ npc = "loop"
    /\ nk > Len(ncol)
    /\ npc' = "returned"
    /\ UNCHANGED <<ndf, ndf0, ncol, nk, nturn, preVars, trVars, geoVars>>

\* ----------------------------------------------------- claims on normalize

\* What the claims expect of one cell: the upper-case form of the strings
\* of the input tables, and the number a numeral stands for.
UpperOf == [w \in {"red", "7"} |-> IF w = "red" THEN "RED" ELSE "7"]
NumberOf == [w \in {"7"} |-> 7]
Expected(c, e) ==
    LET t == IF e.len = 3 /\ c.k = "str" THEN Str(UpperOf[c.s]) ELSE c
    IN IF e.type = "h" /\ t.k = "str" /\ t.s \in DOMAIN NumberOf
       THEN Int(NumberOf[t.s]) ELSE t

\* What C6 says of entry e: the target column is there and holds in every
\* row the source column's value before the call, transformed and cast (or
\* the fill constant, where that value is missing and was filled); the
\* source column is gone exactly when the names differ.
TargetIsCastSource(e) ==
    /\ Has(ndf0, e.old)
    /\ Has(ndf, e.new)
    /\ \A r \in DOMAIN ndf.index :
          \/ ndf.data[e.new][r] = Expected(ndf0.data[e.old][r], e)
          \/ /\ IsNA(Expected(ndf0.data[e.old][r], e))
             /\ ndf.data[e.new][r] = Str(nfill)
    /\ ~Has(ndf, e.old) <=> e.new # e.old

\* C6 as stated: after a successful normalize, every entry with a named
\* source column has left its target column as the cast of the source.
C6_TargetIsCastSource ==
    npc = "returned" =>
        \A k \in DOMAIN ncol : ncol[k].named => TargetIsCastSource(ncol[k])

\* No other entry of the specification names the target or the source
\* column of entry k, as its target or as its source.
Independent(k) ==
    \A j \in DOMAIN ncol : j # k =>
        /\ ncol[j].new \notin {ncol[k].new, ncol[k].old}
        /\ ncol[j].named => ncol[j].old \notin {ncol[k].new, ncol[k].old}

\* C6 as amended: it holds of every entry whose target and source column no
\* other entry of the specification names.
C6_IndependentTargetIsCastSource ==
    npc = "returned" =>
        \A k \in DOMAIN ncol :
            (ncol[k].named /\ Independent(k)) => TargetIsCastSource(ncol[k])

\* A successful normalize with an entry that renames, transforms and casts
\* a column no other entry names.
C6_Witness ==
    /\ npc = "returned"
    /\ \E k \in DOMAIN ncol :
          /\ ncol[k].named /\ Independent(k)
          /\ ncol[k].len = 3 /\ ncol[k].new # ncol[k].old
          /\ \E r \in DOMAIN ndf.index : ndf.data[ncol[k].new][r] = Str("RED")
          /\ \E r \in DOMAIN ndf.index : ndf.data[ncol[k].new][r] = Str("7")

\* C7: after a successful normalize no target column of the specification
\* holds a missing value (of the entries the contract admits: a source
\* column or a literal default).
C7_NoMissingInTargets ==
    npc = "returned" =>
        \A k \in DOMAIN ncol :
            ((ncol[k].named \/ ncol[k].len = 3) /\ Has(ndf, ncol[k].new)) =>
                \A r \in DOMAIN ndf.index : ~IsNA(ndf.data[ncol[k].new][r])

\* C8: when the k-th entry fails, the table the caller passed in is as it
\* was before the call: it shows none of the changes of entries 1..k-1.
\* Stated for a failing turn that changes nothing itself (a missing source
\* column, a cast that fails before anything is assigned), so that what
\* differs is the work of the entries before it.
C8_FailureLeavesTableUntouched ==
    (npc = "failed" /\ ndf = nturn) => ndf = ndf0

\* ========================================================================
\* get_country_codes
\* ========================================================================

\* The values of the location column.
Cities == {Str("Zuzwil"), Str("Berlin"), NA}
\* The country codes the geocoder's addresses hold.
Codes == {"ch", "de", "De"}

\* str.upper() on a country code.
Upper(s) ==
    CASE s = "ch" -> "CH"
      [] s = "de" -> "DE"
      [] s = "De" -> "DE"
      [] OTHER -> s

\* A faulty unique that keeps every row's value.
UniqueAll(col) == col

\* Series.unique(): the distinct values (a missing value among them) in the
\* order of first appearance.
Unique(col) ==
    LET F[i \in 0..Len(col)] ==
            IF i = 0 THEN <<>>
            ELSE IF col[i] \in Range(F[i - 1]) THEN F[i - 1]
                 ELSE Append(F[i - 1], col[i])
    IN F[Len(col)]

\* What a query of the geocoder can end in other than an address with a
\* country code: geocode returns None (.raw raises AttributeError), the
\* address has no "country_code" (KeyError), or the geocoder raises.
Failures == {"no location", "no country_code", "geocoder error"}

Absent == [present |-> FALSE, v |-> <<>>]

InitGeo ==
    /\ gdf \in UNION {[1..n -> Cities] : n \in 1..MaxCities}
    /\ gq = Unique(gdf)
    /\ gcalls = [c \in Cities |-> 0]
    /\ ganswer = <<>>
    /\ city_dict = <<>>
    /\ gcolumn = Absent
    /\ gpc = "loop"

\* One turn of the loop whose lookup gives an address with a country code.
GeoLookup ==
    /\ gpc = "loop"
    /\ gq # <<>>
    /\ \E code \in Codes :
          LET city == Head(gq)
          IN /\ gcalls' = [gcalls EXCEPT ![city] = @ + 1]
             /\ ganswer' = [c \in DOMAIN ganswer \cup {city} |->
                               IF c = city THEN code ELSE ganswer[c]]
             /\ city_dict' = [c \in DOMAIN city_dict \cup {city} |->
                                 IF c = city THEN Upper(code) ELSE city_dict[c]]
    /\ gq' = Tail(gq)
    /\ UNCHANGED <<gdf, gcolumn, gpc, preVars, trVars, normVars>>

\* One turn of the loop whose lookup raises: the except branch logs and
\* the function returns None.
GeoLookupFails ==
    /\ gpc = "loop"
    /\ gq # <<>>
    /\ \E failure \in Failures :
          /\ gcalls' = [gcalls EXCEPT ![Head(gq)] = @ + 1]
          /\ gpc' = "failed"
    /\ UNCHANGED <<gdf, gq, ganswer, city_dict, gcolumn, preVars, trVars, normVars>>

\* After the loop: df[col_name] = df[col].map(city_dict), and df is returned.
GeoAssign ==
    /\ gpc = "loop"
    /\ gq = <<>>
    /\ gcolumn' = [present |-> TRUE,
                   v |-> [r \in DOMAIN gdf |->
                            IF gdf[r] \in DOMAIN city_dict
                            THEN Str(city_dict[gdf[r]]) ELSE NA]]
    /\ gpc' = "returned"
    /\ UNCHANGED <<gdf, gq, gcalls, ganswer, city_dict, preVars, trVars, normVars>>

\* --------------------------------------------- claims on get_country_codes

\* The distinct values of the location column.
Locations == Range(gdf)
\* The country codes and their upper-case forms.
UpperCase == [c \in {"ch", "de", "De"} |-> IF c = "ch" THEN "CH" ELSE "DE"]
\* Every row of the new column holds the upper-cased code returned for the
\* row's location.
ColumnHoldsCodes ==
    /\ gcolumn.present
    /\ DOMAIN gcolumn.v = DOMAIN gdf
    /\ \A r \in DOMAIN gdf : gcolumn.v[r] = Str(UpperCase[ganswer[gdf[r]]])

\* C9 as stated: in a call the geocoder is queried exactly once for each
\* distinct location; when every lookup succeeds each row holds the
\* upper-cased code of its location, and when a lookup fails nothing is
\* returned and no column is added.
C9_EachLocationQueriedOnce ==
    gpc \in {"returned", "failed"} =>
        /\ \A c \in Locations : gcalls[c] = 1
        /\ gpc = "returned" => ColumnHoldsCodes
        /\ gpc = "failed" => ~gcolumn.present

\* C9 as amended: the geocoder is queried at most once for each distinct
\* location and never for another value; exactly once for each when every
\* lookup succeeds, and then each row holds the upper-cased code of its
\* location; after a failed lookup the distinct locations that follow the
\* failing one are not queried, nothing is returned and no column is added.
C9_AtMostOnceAndOnceOnSuccess ==
    gpc \in {"loop", "returned", "failed"} =>
        /\ \A c \in Cities : gcalls[c] <= 1 /\ (c \notin Locations => gcalls[c] = 0)
        /\ gpc = "returned" =>
              /\ \A c \in Locations : gcalls[c] = 1
              /\ ColumnHoldsCodes
        /\ gpc = "failed" =>
              /\ ~gcolumn.present
              /\ gcalls[Head(gq)] = 1
              /\ \A n \in 2..Len(gq) : gcalls[gq[n]] = 0

\* A call that succeeded on a column in which two rows share a location and
\* a third has another one.
C9_Witness ==
    /\ gpc = "returned"
    /\ \E r1, r2, r3 \in DOMAIN gdf :
          r1 # r2 /\ gdf[r1] = gdf[r2] /\ gdf[r3] # gdf[r1]
    /\ \E r \in DOMAIN gdf : gcolumn.v[r] = Str("DE") /\ ganswer[gdf[r]] = "De"

\* ========================================================================
\* specifications: one per operation; the other operations' variables idle
\* ========================================================================

IdlePre == long = <<>> /\ prePc = "idle" /\ preRet = NoRet
IdleTranslate ==
    /\ tdf = [present |-> FALSE, v |-> <<>>] /\ tfile = BadFile /\ tfill = ""
    /\ tin = <<>> /\ thist = <<>> /\ tret = "idle"
IdleNormalize ==
    /\ ndf = <<>> /\ ndf0 = <<>> /\ ncol = <<>> /\ nk = 0 /\ npc = "idle"
    /\ nturn = <<>>
IdleGeo ==
    /\ gdf = <<>> /\ gq = <<>> /\ gcalls = <<>> /\ ganswer = <<>>
    /\ city_dict = <<>> /\ gcolumn = Absent /\ gpc = "idle"

InitPreOnly == InitPre /\ IdleTranslate /\ IdleNormalize /\ IdleGeo
NextPre == PreProcessing
SpecPre == InitPreOnly /\ [][NextPre]_vars

InitTranslateOnly == IdlePre /\ InitTranslate /\ IdleNormalize /\ IdleGeo
NextTranslate == Translate
SpecTranslate == InitTranslateOnly /\ [][NextTranslate]_vars

InitNormalizeOnly == IdlePre /\ IdleTranslate /\ InitNormalize /\ IdleGeo
NextNormalize == NormalizeEntry \/ NormalizeFails \/ NormalizeReturn
SpecNormalize == InitNormalizeOnly /\ [][NextNormalize]_vars

InitGeoOnly == IdlePre /\ IdleTranslate /\ IdleNormalize /\ InitGeo
NextGeo == GeoLookup \/ GeoLookupFails \/ GeoAssign
SpecGeo == InitGeoOnly /\ [][NextGeo]_vars

\* Any one of the four operations, called on its inputs.
Init == InitPreOnly \/ InitTranslateOnly \/ InitNormalizeOnly \/ InitGeoOnly
Next == NextPre \/ NextTranslate \/ NextNormalize \/ NextGeo
Spec == Init /\ [][Next]_vars

=============================================================================
